---- MODULE Spec2Model ----
(***************************************************************************)
(* Daily digest selection and fill (services/api/app/daily_digests.py)     *)
(* over the SQLite store declared in services/api/app/db.py.               *)
(*                                                                         *)
(* Every connect() opens its own connection in WAL mode.  A statement      *)
(* outside BEGIN/COMMIT reads the last committed state.  A write statement *)
(* that opens a fresh transaction waits (busy_timeout) until no other      *)
(* connection holds the write lock.  Inside BEGIN ... COMMIT the first     *)
(* SELECT pins a snapshot; a later write statement of that transaction     *)
(* fails at once with "database is locked" when another connection holds   *)
(* the write lock or has committed since the snapshot was pinned.  A       *)
(* statement that fails on a constraint leaves its transaction open, with  *)
(* the write lock, until the connection is closed.  A connection that      *)
(* takes the lock writes on top of its own snapshot: the statements from   *)
(* the first write that does not fail on the lock to COMMIT form one step, *)
(* taken when no commit has happened since the snapshot was pinned.        *)
(***************************************************************************)
EXTENDS Integers, Sequences, FiniteSets, TLC

\* ---------------------------------------------------------------- bounds
NumItems == 3          \* items in the store at the start
MaxIngest == 1         \* items that arrive later
MaxCalls == 3          \* createOrRefill calls started over a behaviour
MaxTopN == 2           \* the top_n every caller passes
MaxAnalyses == 3       \* largest id the table of analyses gets to
MaxSideCalls == 2      \* createOrRefill calls started while other operations are watched
MaxRuns == 2           \* automation runs requested over a behaviour

Procs == {1, 2}        \* workers serving concurrent calls (API request, automation run)
Days == {2, 3}         \* calendar days (as day numbers) digests are built for
TicksPerDay == 2       \* distinct timestamps modelled inside one calendar day
PreferDaysChoices == {1, 2}
LookbackChoices == {2}

VARIABLES
    items,        \* items joined with their latest analysis: id -> record
    digests,      \* table daily_digests: set of rows [id, day, status, params_json,
                  \* script_json]
    digest_items, \* table daily_digest_items: set of rows [digest_id, item_id, rank]
    calls,        \* number of calls started
    ingested,     \* number of items that arrived after the start
    params,       \* the DigestParams the callers pass
    pc, day, refill, force,      \* per caller: position and arguments
    digest_id, cur_count, picked, base_rank, inserted, stale, changed,
    added,        \* history: item ids this call has inserted
    released,     \* history: item ids the call's force delete removed
    pre,          \* history: rows of the digest when the call started
    interfered,   \* history: something else ran since the call started
    prev,         \* history: arguments of the call this caller just finished alone
    again,        \* history: the call repeats prev with nothing in between
    seen,         \* history: candidates each window held when the call queried it
    skip,         \* per caller: INSERTs of the batch that failed on the write lock
    out,          \* per caller: the result read back so far (id, status, items_count)
    llm_analyses, \* table llm_analyses: set of rows [id, item_id, prompt_version,
                  \* interest_score, is_dfo_business]
    reply,        \* what the last read operation returned
    gen,          \* the generate_digest_script call in progress
    auto,         \* the automation layer: the state hash and the pipeline runs
    tie_order     \* the order in which the query plan returns rows that tie on both sort keys

store == <<items, digests, digest_items>>
vars == <<items, digests, digest_items, calls, ingested,
          params, pc, day, refill, force, digest_id, cur_count, picked,
          base_rank, inserted, stale, changed,
          added, released, pre, interfered, prev, again, seen, skip, tie_order, out,
          llm_analyses, reply, gen, auto>>

\* ------------------------------------------------------------ pure helpers
Min(a, b) == IF a < b THEN a ELSE b
Max(a, b) == IF a > b THEN a ELSE b

\* a day string YYYY-MM-DD is modelled by the number in its DD field, the year
\* and the month being those of the items; a negative number stands for a
\* string that is not of that form
LastDay == 3
DateError == -100
MatchesDayPattern(s) == s \in 0..99

\* dt.date.fromisoformat: the date, or ValueError when the string names none
_parse_day(s) == IF s \in 1..LastDay THEN s ELSE DateError

\* substr(COALESCE(published_at, fetched_at), 1, 10): the calendar date of a timestamp
DateOf(ts) == ts \div TicksPerDay

\* the timestamp of tick t of calendar date d
Stamp(d, t) == d * TicksPerDay + t

DefaultParams == [top_n |-> 5, prefer_days |-> 2, max_lookback_days |-> 60,
                  min_interest |-> 5, min_dfo |-> 2, min_business |-> 2,
                  exclude_war |-> TRUE, only_dfo_business |-> TRUE]

ParamChoices ==
    {[DefaultParams EXCEPT !.top_n = n, !.prefer_days = pd, !.max_lookback_days = lb] :
        n \in {MaxTopN}, pd \in PreferDaysChoices, lb \in LookbackChoices}

Item(d, t, interest) ==
    [stamp |-> Stamp(d, t), interest_score |-> interest, business_score |-> 2,
     dfo_score |-> 2, is_dfo_business |-> TRUE, war |-> FALSE, analysed |-> TRUE]

\* the kinds of item the store is drawn from
ItemKinds == << Item(3, 0, 5), Item(2, 0, 9), Item(2, 1, 5), Item(1, 1, 9) >>

\* the items that arrive while digests are being built, in their order of
\* arrival
LateKinds == << Item(3, 1, 9), Item(1, 0, 5) >>

\* the stores of NumItems items of different kinds (fewer when the kinds run
\* out); the selector never looks at an id, so the items are numbered in the
\* order of their kind
StoreSize == Min(NumItems, Len(ItemKinds))
Stores ==
    {[i \in 1..StoreSize |-> ItemKinds[k[i]]] :
        k \in {f \in [1..StoreSize -> 1..Len(ItemKinds)] :
                  \A a, b \in 1..StoreSize : a < b => f[a] < f[b]}}

\* a status that is never "empty"
StatusNeverEmpty(n, top_n) == IF n >= top_n THEN "ready" ELSE "partial"

_status_for_count(n, top_n) ==
    IF n >= top_n THEN "ready" ELSE IF n = 0 THEN "empty" ELSE "partial"

\* ------------------------------------------------------------ analyses
\* a row of llm_analyses holding the analysis fields of the joined record it
Analysis(id, i, v, it) ==
    [id |-> id, item_id |-> i, prompt_version |-> v,
     interest_score |-> it.interest_score, is_dfo_business |-> it.is_dfo_business]

\* the table in which every item of the store has one analysis
AnalysesOf(its) == {Analysis(i, i, 1, its[i]) : i \in DOMAIN its}

\* CTE latest (lines 136-140): the analysis of item i with the largest id
LatestOf(an, i) ==
    {a \in an : a.item_id = i /\ \A b \in an : b.item_id = i => b.id <= a.id}

\* the join with the oldest analysis
JoinFirst(it, an, i) ==
    LET first == {a \in an : a.item_id = i /\ \A b \in an : b.item_id = i => a.id <= b.id} IN
    IF first = {}
    THEN [it EXCEPT !.analysed = FALSE]
    ELSE LET a == CHOOSE x \in first : TRUE IN
         [it EXCEPT !.analysed = TRUE, !.interest_score = a.interest_score,
                    !.is_dfo_business = a.is_dfo_business]

\* JOIN latest l ON l.item_id = i.id JOIN llm_analyses a ON a.id = l.max_id
\* (lines 153-154): the item with the fields of its latest analysis
JoinLatest(it, an, i) ==
    IF LatestOf(an, i) = {}
    THEN [it EXCEPT !.analysed = FALSE]
    ELSE LET a == CHOOSE x \in LatestOf(an, i) : TRUE IN
         [it EXCEPT !.analysed = TRUE, !.interest_score = a.interest_score,
                    !.is_dfo_business = a.is_dfo_business]

\* ------------------------------------------------------------ store reads
UsedItems(rows) == {r.item_id : r \in rows}
RowsOf(rows, did) == {r \in rows : r.digest_id = did}
CountOf(rows, did) == Cardinality(RowsOf(rows, did))
\* the item rows get_digest_by_day returns (lines 97-124): the rows of the
\* digest joined with items
JoinedRows(rows, its, did) == {r \in RowsOf(rows, did) : r.item_id \in DOMAIN its}
DigestOfDay(d) == {g \in digests : g.day = d}
NextDigestId == Cardinality(digests) + 1
NextItemId == Cardinality(DOMAIN items) + 1
\* AUTOINCREMENT: one more than the largest id used
NextAnalysisId ==
    (CHOOSE k \in {0} \cup {a.id : a \in llm_analyses} : \A a \in llm_analyses : a.id <= k) + 1

\* the joins (an item without analysis has no row) and the WHERE clause of
\* _base_candidates_sql over the committed tables
BaseCandidatesIn(its, rows, prm) ==
    {i \in DOMAIN its :
        /\ its[i].analysed
        /\ its[i].business_score >= prm.min_business
        /\ its[i].dfo_score >= prm.min_dfo
        /\ its[i].interest_score >= prm.min_interest
        /\ (prm.only_dfo_business => its[i].is_dfo_business)
        /\ (prm.exclude_war => ~its[i].war)
        /\ i \notin UsedItems(rows)}

_base_candidates_sql(prm) == BaseCandidatesIn(items, digest_items, prm)

PreferDates(d, prm) == {d - k : k \in 0..(prm.prefer_days - 1)}
CutoffDay(d, prm) == d - (prm.prefer_days - 1)
MinDay(d, prm) == d - (prm.max_lookback_days - 1)

InPrefer(its, i, d, prm) == DateOf(its[i].stamp) \in PreferDates(d, prm)

\* a backfill range that includes the oldest preferred date
InFallbackUpToCutoff(its, i, d, prm) ==
    /\ DateOf(its[i].stamp) <= CutoffDay(d, prm)
    /\ DateOf(its[i].stamp) >= MinDay(d, prm)

InFallback(its, i, d, prm) ==
    /\ DateOf(its[i].stamp) < CutoffDay(d, prm)
    /\ DateOf(its[i].stamp) >= MinDay(d, prm)

\* an ORDER BY on the timestamp alone
BeforeByTimeOnly(its, i, j) == its[i].stamp > its[j].stamp

\* ORDER BY a.interest_score DESC, COALESCE(i.published_at, i.fetched_at) DESC
Before(its, i, j) ==
    \/ its[i].interest_score > its[j].interest_score
    \/ /\ its[i].interest_score = its[j].interest_score
       /\ its[i].stamp > its[j].stamp

\* the orders in which SQLite was seen to return rows that tie on both sort
\* keys: the scan order of the plan in use, by ascending or by descending id
TieOrders == {"id_asc", "id_desc"}
TieBefore(i, j) == IF tie_order = "id_asc" THEN i < j ELSE i > j

\* the order of the rows of one query: the ORDER BY terms, and the scan order
\* between rows the terms do not separate
RowBefore(its, i, j) ==
    \/ Before(its, i, j)
    \/ (~Before(its, j, i) /\ TieBefore(i, j))

\* an ORDER BY ... LIMIT n that returns tied rows in an order of its own
\* choosing at each execution
OrderedLimitAnyTieOrder(its, cands, n) ==
    LET len == Min(n, Cardinality(cands)) IN
    {s \in [1..len -> cands] :
        /\ \A a, b \in 1..len : a < b => (s[a] # s[b] /\ ~Before(its, s[b], s[a]))
        /\ \A c \in cands \ {s[a] : a \in 1..len} :
               \A a \in 1..len : ~Before(its, c, s[a])}

\* ORDER BY ... LIMIT n over a candidate set: the row sequence the query
\* returns (a set of one sequence)
OrderedLimit(its, cands, n) ==
    LET len == Min(n, Cardinality(cands)) IN
    {s \in [1..len -> cands] :
        /\ \A a, b \in 1..len : a < b => RowBefore(its, s[a], s[b])
        /\ \A c \in cands \ {s[a] : a \in 1..len} :
               \A a \in 1..len : RowBefore(its, s[a], c)}

\* phase 1 without the restriction to the preferred dates
PreferCandsAnyDate(d, prm) == _base_candidates_sql(prm)

PreferCands(d, prm) == {i \in _base_candidates_sql(prm) : InPrefer(items, i, d, prm)}
FallbackCands(d, prm) == {i \in _base_candidates_sql(prm) : InFallback(items, i, d, prm)}

_select_prefer(d, prm, n) == OrderedLimit(items, PreferCands(d, prm), n)
_select_fallback(d, prm, n) == OrderedLimit(items, FallbackCands(d, prm), n)

\* the membership table without the unique index on item_id
UniqueViolationRankOnly(rows, r) ==
    \E x \in rows : x.digest_id = r.digest_id /\ x.rank = r.rank

\* the membership table without the unique index on (digest_id, rank)
UniqueViolationItemOnly(rows, r) ==
    \E x \in rows : x.item_id = r.item_id

\* the unique indexes uq_daily_digest_items_item and
\* uq_daily_digest_items_digest_rank, checked by an INSERT of row r into rows
UniqueViolation(rows, r) ==
    \/ \E x \in rows : x.item_id = r.item_id
    \/ \E x \in rows : x.digest_id = r.digest_id /\ x.rank = r.rank

\* the windows as the specification words them: the prefer_days calendar dates
\* ending at the digest's day, and the older dates down to
\* day - (max_lookback_days - 1)
DatedPreferred(d, prm) ==
    {i \in _base_candidates_sql(prm) :
        /\ DateOf(items[i].stamp) <= d
        /\ DateOf(items[i].stamp) > d - prm.prefer_days}
DatedBackfill(d, prm) ==
    {i \in _base_candidates_sql(prm) :
        /\ DateOf(items[i].stamp) <= d - prm.prefer_days
        /\ DateOf(items[i].stamp) > d - prm.max_lookback_days}
NotSeen == [prefer |-> -1, fallback |-> -1]

\* what an API operation replies: the operation and its day, the HTTP status,
\* whether the digest exists, the number of items returned with it, the
\* <<day, items_count>> list of list_digests, the three counts of the diagnostics
Reply(op, d, code, exists, n, listed, diag) ==
    [op |-> op, day |-> d, code |-> code, exists |-> exists, items_count |-> n,
     listed |-> listed, diag |-> diag]

\* no API operation has replied
NoReply == Reply("", 0, 0, FALSE, 0, <<>>, <<0, 0, 0>>)

\* a generate_digest_script call: where it is, its arguments, the digest and
\* the items it read, the script it returns, the error it raises
Gen(at, d, fc, did, its, script, error) ==
    [pc |-> at, day |-> d, force |-> fc, digest_id |-> did, items |-> its,
     script |-> script, error |-> error]

\* no script is being generated
GenIdle == Gen("idle", 0, FALSE, 0, {}, {}, "")

\* the automation: the running marker of the state hash, and per run where
\* it is, its pipeline, its day and the worker its daily step runs on
Runs == 1..MaxRuns
Pipelines == {"ingest", "llm", "daily", "full"}

\* no pipeline run was requested
AutoIdle ==
    [running_run_id |-> 0, at |-> [r \in Runs |-> "none"], pipeline |-> [r \in Runs |-> ""],
     day |-> [r \in Runs |-> 0], caller |-> [r \in Runs |-> 0]]

\* the result of a call before get_digest_by_day has read anything
NoResult == [id |-> 0, status |-> "", items_count |-> 0]

\* ------------------------------------------------------------ initial state
Init ==
    /\ items \in Stores
    /\ digests = {}
    /\ digest_items = {}
    /\ calls = 0
    /\ ingested = 0
    /\ pc = [p \in Procs |-> "idle"]
    /\ day = [p \in Procs |-> 0]
    /\ params \in ParamChoices
    /\ refill = [p \in Procs |-> TRUE]
    /\ force = [p \in Procs |-> FALSE]
    /\ digest_id = [p \in Procs |-> 0]
    /\ cur_count = [p \in Procs |-> 0]
    /\ picked = [p \in Procs |-> <<>>]
    /\ base_rank = [p \in Procs |-> 0]
    /\ inserted = [p \in Procs |-> 0]
    /\ stale = [p \in Procs |-> FALSE]
    /\ changed = [p \in Procs |-> FALSE]
    /\ added = [p \in Procs |-> {}]
    /\ released = [p \in Procs |-> {}]
    /\ pre = [p \in Procs |-> {}]
    /\ interfered = [p \in Procs |-> FALSE]
    /\ prev = [p \in Procs |-> <<>>]
    /\ again = [p \in Procs |-> FALSE]
    /\ seen = [p \in Procs |-> NotSeen]
    /\ skip = [p \in Procs |-> 0]
    /\ out = [p \in Procs |-> NoResult]
    /\ reply = NoReply
    /\ gen = GenIdle
    /\ auto = AutoIdle
    /\ llm_analyses = AnalysesOf(items)
    \* no two items of Stores and LateKinds tie on both sort keys
    /\ tie_order = "id_asc"

\* ------------------------------------------------------------ bookkeeping
\* a commit by connection a invalidates the snapshot of every other open
\* BEGIN ... COMMIT block
StaleAfterCommit(a) ==
    [q \in Procs |-> IF q # a /\ pc[q] = "insert" THEN TRUE ELSE stale[q]]

Args(p) == <<day[p], refill[p], force[p]>>

Busy(a) == \E q \in Procs : q # a /\ pc[q] # "idle"

\* history of the callers other than the one that takes the step
Bystanders(a) ==
    /\ interfered' = [q \in Procs |-> IF q # a /\ pc[q] # "idle" THEN TRUE ELSE interfered[q]]
    /\ pre' = [q \in Procs |-> IF q # a THEN {} ELSE pre[q]]
    /\ prev' = [q \in Procs |-> IF q # a THEN <<>> ELSE prev[q]]
    /\ again' = [q \in Procs |-> IF q # a THEN FALSE ELSE again[q]]

\* another connection holds the write lock: its INSERT failed on a constraint
\* and its connection is not closed yet
LockHeld(a) == \E q \in Procs : q # a /\ pc[q] = "ensure_failed"

need(p) == Max(0, params.top_n - cur_count[p])
need2(p) == Max(0, need(p) - Len(picked[p]))

\* a test that only looks at the count
ShortCircuitFullOnly(prm, rf, fc, cnt) == cnt >= prm.top_n

\* line 284: the digest is full, or it has items and neither refill nor force is set
ShortCircuit(prm, rf, fc, cnt) ==
    \/ cnt >= prm.top_n
    \/ (cnt > 0 /\ ~rf /\ ~fc)

\* lines 274-290 after the count cnt was read: where the call goes next
AfterCount(prm, rf, fc, cnt) ==
    IF fc THEN "force"
    ELSE IF ShortCircuit(prm, rf, fc, cnt) THEN "done"
    ELSE "prefer"

\* ------------------------------------------------------------ actions
\* ingest writes an item and llm_worker commits its analysis: the item
\* becomes visible to the selector
Ingest ==
    /\ ingested < MaxIngest
    /\ ~LockHeld(0)
    /\ \E k \in {Min(ingested + 1, Len(LateKinds))} :
         items' = [i \in DOMAIN items \cup {NextItemId} |->
                      IF i \in DOMAIN items THEN items[i] ELSE LateKinds[k]]
    /\ llm_analyses' = llm_analyses \cup
          {Analysis(NextAnalysisId, NextItemId, 1, LateKinds[Min(ingested + 1, Len(LateKinds))])}
    /\ ingested' = ingested + 1
    /\ stale' = StaleAfterCommit(0)
    /\ Bystanders(0)
    /\ UNCHANGED <<digests, digest_items, calls, params, pc, day, refill, force,
                   digest_id, cur_count, picked, base_rank, inserted, changed,
                   added, released, seen, skip, tie_order, out, reply, gen, auto>>

\* script_json of a row no script was stored for (NULL)
NoScript == {}

\* lines 64-69: the row INSERTed for a day, a draft carrying the caller's
\* parameters
DraftRow(d, prm, id) ==
    [id |-> id, day |-> d, status |-> "draft", params_json |-> prm, script_json |-> NoScript]

\* an ensure that overwrites the row it finds with the caller's parameters
EnsureOverwrites(digs, d, prm, id) ==
    IF \E g \in digs : g.day = d
    THEN {IF g.day = d THEN [g EXCEPT !.status = "draft", !.params_json = prm] ELSE g :
             g \in digs}
    ELSE digs \cup {DraftRow(d, prm, id)}

\* ensure_daily_digest, lines 60-71, as it leaves the table it sees: a row of
\* the day is returned as it is stored; without one a draft row carrying the
\* caller's parameters is inserted
ensure_daily_digest(digs, d, prm, id) ==
    IF \E g \in digs : g.day = d
    THEN digs
    ELSE digs \cup {DraftRow(d, prm, id)}

\* the (refill, force) pairs the callers pass; refill is not looked at when
\* force is set
CallFlags == {<<TRUE, FALSE>>, <<FALSE, FALSE>>, <<TRUE, TRUE>>}

\* a call is served by the first idle worker
FirstIdle(p) == pc[p] = "idle" /\ \A q \in Procs : pc[q] = "idle" => ~(q < p)

\* a caller enters create_or_refill_daily_digest(day, params, refill, force).
\* ensure_daily_digest, line 60, SELECTs the row of the day; a row, once
\* found, is never deleted or re-keyed, so when it exists the SELECT is taken
\* together with the count of lines 268-272 and the test of line 284
Enter(p, d, rf, fc) ==
    /\  /\ day' = [day EXCEPT ![p] = d]
        /\ refill' = [refill EXCEPT ![p] = rf]
        /\ force' = [force EXCEPT ![p] = fc]
        /\ again' = [q \in Procs |-> q = p /\ prev[p] = <<d, rf, fc>>]
        /\ pre' = [q \in Procs |->
                     IF q = p /\ ~Busy(p)
                     THEN {r \in digest_items : \E g \in DigestOfDay(d) : r.digest_id = g.id}
                     ELSE {}]
        /\ IF DigestOfDay(d) # {}
           THEN \E g \in DigestOfDay(d) :
                  LET cnt == CountOf(digest_items, g.id) IN
                    /\ digests' = ensure_daily_digest(digests, d, params, NextDigestId)
                    /\ digest_id' = [digest_id EXCEPT ![p] = g.id]
                    /\ cur_count' = [cur_count EXCEPT ![p] = cnt]
                    /\ pc' = [pc EXCEPT ![p] = AfterCount(params, rf, fc, cnt)]
           ELSE /\ pc' = [pc EXCEPT ![p] = "ensure_insert"]
                /\ UNCHANGED <<digests, digest_id, cur_count>>
    /\ calls' = calls + 1
    /\ interfered' = [q \in Procs |-> IF q = p THEN Busy(p)
                                       ELSE IF pc[q] # "idle" THEN TRUE ELSE interfered[q]]
    /\ prev' = [q \in Procs |-> <<>>]
    /\ seen' = [seen EXCEPT ![p] = NotSeen]
    /\ UNCHANGED <<items, digest_items, ingested, params, picked, base_rank, inserted,
                   stale, changed, added, released, skip, tie_order, out,
                   llm_analyses, gen>>

\* a call with a day the digests are built for; it is not an API request and
\* leaves no reply
Call(p) ==
    /\ FirstIdle(p)
    /\ calls < MaxCalls
    /\ \E d \in Days, fl \in CallFlags : Enter(p, d, fl[1], fl[2])
    /\ UNCHANGED <<reply, auto>>

\* a call, of the few that run between the other operations
SideCall(p) ==
    /\ calls < MaxSideCalls
    /\ Call(p)

\* the table of digests without the unique index on day
DayUniqueViolationNever(digs, d) == FALSE

\* the unique index uq_daily_digests_day, checked by an INSERT of a row of day d
DayUniqueViolation(digs, d) == \E g \in digs : g.day = d

\* ensure_daily_digest, lines 64-73: INSERT the row, commit, read it back.
\* The INSERT opens a write transaction (it waits while the lock is held); when
\* the unique index on day rejects it, the exception leaves the with block
\* and the transaction stays open until the connection is closed
EnsureInsert(p) ==
    /\ pc[p] = "ensure_insert"
    /\ ~LockHeld(p)
    /\ IF DayUniqueViolation(digests, day[p])
       THEN /\ pc' = [pc EXCEPT ![p] = "ensure_failed"]
            /\ UNCHANGED <<digests, digest_id, stale>>
       ELSE /\ digests' = digests \cup {DraftRow(day[p], params, NextDigestId)}
            /\ digest_id' = [digest_id EXCEPT ![p] = NextDigestId]
            /\ stale' = StaleAfterCommit(p)
            /\ pc' = [pc EXCEPT ![p] = "count"]
    /\ Bystanders(p)
    /\ UNCHANGED <<items, digest_items, calls, ingested, day, params, refill, force,
                   cur_count, picked, base_rank, inserted, changed, added, released, seen,
                   skip, tie_order, out,
                   llm_analyses, reply, gen, auto>>

\* db.connect, lines 263-264: the connection of the failed INSERT is closed,
\* which rolls back and frees the write lock; the IntegrityError propagates
EnsureRaise(p) ==
    /\ pc[p] = "ensure_failed"
    /\ pc' = [pc EXCEPT ![p] = "raised"]
    /\ Bystanders(p)
    /\ UNCHANGED <<store, calls, ingested, day, params, refill, force, digest_id, cur_count,
                   picked, base_rank, inserted, stale, changed, added, released, seen,
                   skip, tie_order, out,
                   llm_analyses, reply, gen, auto>>

\* lines 268-272 and the test of line 284, for a row the call has just created
Count(p) ==
    /\ pc[p] = "count"
    /\ LET cnt == CountOf(digest_items, digest_id[p]) IN
        /\ cur_count' = [cur_count EXCEPT ![p] = cnt]
        /\ pc' = [pc EXCEPT ![p] = AfterCount(params, refill[p], force[p], cnt)]
    /\ Bystanders(p)
    /\ UNCHANGED <<store, calls, ingested, day, params, refill, force, digest_id, picked,
                   base_rank, inserted, stale, changed, added, released, seen, skip, tie_order, out,
                   llm_analyses, reply, gen, auto>>

\* a delete that leaves the rows below the first rank in place
ForceDeletedFirstOnly(rows, did) == {r \in RowsOf(rows, did) : r.rank = 1}

\* a delete without the WHERE clause
ForceDeletedAll(rows, did) == rows

\* line 276: the rows DELETE FROM daily_digest_items WHERE digest_id = did removes
ForceDeleted(rows, did) == RowsOf(rows, did)

\* lines 274-282: delete the composition, reset the row, commit; then line 284
Force(p) ==
    /\ pc[p] = "force"
    /\ ~LockHeld(p)
    /\ digest_items' = digest_items \ ForceDeleted(digest_items, digest_id[p])
    /\ digests' = {IF g.id = digest_id[p] THEN [g EXCEPT !.status = "draft"] ELSE g :
                      g \in digests}
    /\ released' = [released EXCEPT ![p] = UsedItems(RowsOf(digest_items, digest_id[p]))]
    /\ cur_count' = [cur_count EXCEPT ![p] = 0]
    /\ stale' = StaleAfterCommit(p)
    /\ pc' = [pc EXCEPT ![p] =
                 IF ShortCircuit(params, refill[p], force[p], 0) THEN "done" ELSE "prefer"]
    /\ Bystanders(p)
    /\ UNCHANGED <<items, calls, ingested, day, params, refill, force, digest_id,
                   picked, base_rank, inserted, changed, added, seen, skip, tie_order, out,
                   llm_analyses, reply, gen, auto>>

\* line 293: phase 1, the preferred window, LIMIT need; _select_prefer parses
\* the day first (line 217) and the ValueError of a day that is no date propagates
SelectPrefer(p) ==
    /\ pc[p] = "prefer"
    /\ IF _parse_day(day[p]) = DateError
       THEN /\ pc' = [pc EXCEPT ![p] = "raised"]
            /\ UNCHANGED <<picked, seen>>
       ELSE \E s \in _select_prefer(day[p], params, need(p)) :
        /\ picked' = [picked EXCEPT ![p] = s]
        /\ seen' = [seen EXCEPT ![p].prefer = Cardinality(DatedPreferred(day[p], params))]
        /\ pc' = [pc EXCEPT ![p] = IF Max(0, need(p) - Len(s)) > 0 THEN "fallback" ELSE "tx"]
    /\ Bystanders(p)
    /\ UNCHANGED <<store, calls, ingested, day, params, refill, force, digest_id, cur_count,
                   base_rank, inserted, stale, changed, added, released, skip, tie_order, out,
                   llm_analyses, reply, gen, auto>>

\* line 296: phase 2, the backfill window, LIMIT need2
SelectFallback(p) ==
    /\ pc[p] = "fallback"
    /\ \E s \in _select_fallback(day[p], params, need2(p)) :
        picked' = [picked EXCEPT ![p] = picked[p] \o s]
    /\ seen' = [seen EXCEPT ![p].fallback = Cardinality(DatedBackfill(day[p], params))]
    /\ pc' = [pc EXCEPT ![p] = "tx"]
    /\ Bystanders(p)
    /\ UNCHANGED <<store, calls, ingested, day, params, refill, force, digest_id, cur_count,
                   base_rank, inserted, stale, changed, added, released, skip, tie_order, out,
                   llm_analyses, reply, gen, auto>>

\* lines 301-307: BEGIN and the count read that pins the snapshot
TxBegin(p) ==
    /\ pc[p] = "tx"
    /\ base_rank' = [base_rank EXCEPT ![p] = CountOf(digest_items, digest_id[p])]
    /\ stale' = [stale EXCEPT ![p] = FALSE]
    /\ pc' = [pc EXCEPT ![p] = "insert"]
    /\ Bystanders(p)
    /\ UNCHANGED <<store, calls, ingested, day, params, refill, force, digest_id, cur_count,
                   picked, inserted, changed, added, released, seen, skip, tie_order, out,
                   llm_analyses, reply, gen, auto>>

\* line 310
RankFor(base, i) == base + i

\* a loop without the break
RankFitsAlways(rank, top_n) == TRUE

\* lines 311-312: the loop stops at the first rank above top_n
RankFits(rank, top_n) == ~(rank > top_n)

\* lines 309-312: the number of candidates the loop tries to insert
LoopLen(pk, base, top_n) == Min(Len(pk), Max(0, top_n - base))

\* a loop that gives up the rest of the batch at the first conflict
InsertLoopStopAtConflict(rows, did, pk, i, base, top_n) ==
    LET Row(k) == [digest_id |-> did, item_id |-> pk[k], rank |-> RankFor(base, k)]
        Ok(k) == RankFits(RankFor(base, k), top_n) /\ ~UniqueViolation(rows, Row(k)) IN
    rows \cup {Row(k) : k \in {k \in i..Len(pk) : \A j \in i..k : Ok(j)}}

\* lines 309-324: the insert loop from candidate i on, over the table rows;
\* an INSERT that violates a unique index raises, is caught, and the
\* candidate is skipped
RECURSIVE InsertLoop(_, _, _, _, _, _)
InsertLoop(rows, did, pk, i, base, top_n) ==
    IF i > Len(pk) \/ ~RankFits(RankFor(base, i), top_n)
    THEN rows
    ELSE LET row == [digest_id |-> did, item_id |-> pk[i], rank |-> RankFor(base, i)] IN
         IF UniqueViolation(rows, row)
         THEN InsertLoop(rows, did, pk, i + 1, base, top_n)
         ELSE InsertLoop(rows \cup {row}, did, pk, i + 1, base, top_n)

\* line 321: inserted += 1 after each INSERT that did not raise
RECURSIVE InsertedCount(_, _, _, _, _, _)
InsertedCount(rows, did, pk, i, base, top_n) ==
    IF i > Len(pk) \/ ~RankFits(RankFor(base, i), top_n)
    THEN 0
    ELSE LET row == [digest_id |-> did, item_id |-> pk[i], rank |-> RankFor(base, i)] IN
         IF UniqueViolation(rows, row)
         THEN InsertedCount(rows, did, pk, i + 1, base, top_n)
         ELSE 1 + InsertedCount(rows \cup {row}, did, pk, i + 1, base, top_n)

\* lines 313-324 while another connection holds the write lock: the INSERT
\* fails at once with "database is locked", is caught like a conflict, and
\* the loop goes on to the next candidate
InsertLocked(p) ==
    /\ pc[p] = "insert"
    /\ ~stale[p]
    /\ LockHeld(p)
    /\ skip[p] < LoopLen(picked[p], base_rank[p], params.top_n)
    /\ skip' = [skip EXCEPT ![p] = skip[p] + 1]
    /\ Bystanders(p)
    /\ UNCHANGED <<store, calls, ingested, day, params, refill, force, digest_id, cur_count,
                   picked, base_rank, inserted, stale, changed, added, released, seen,
                   pc, tie_order, out,
                   llm_analyses, reply, gen, auto>>

\* lines 309-342 from the first INSERT that does not fail on the lock: the
\* rest of the loop, the recount, the status UPDATE and COMMIT.  On a stale
\* snapshot every INSERT fails with a locked database (caught, skipped) and
\* the UPDATE, outside the try, raises; the UPDATE raises as well when the
\* loop is over and the lock is still held: nothing is written
InsertPhase(p) ==
    /\ pc[p] = "insert"
    /\ (stale[p] \/ ~LockHeld(p)
          \/ skip[p] = LoopLen(picked[p], base_rank[p], params.top_n))
    /\ IF stale[p] \/ LockHeld(p)
       THEN /\ pc' = [pc EXCEPT ![p] = "raised"]
            /\ UNCHANGED <<digests, digest_items, stale, changed, inserted, added>>
       ELSE LET rows == InsertLoop(digest_items, digest_id[p], picked[p], skip[p] + 1,
                                   base_rank[p], params.top_n)
                new_count == CountOf(rows, digest_id[p])
                status == _status_for_count(new_count, params.top_n) IN
            /\ digest_items' = rows
            /\ digests' = {IF g.id = digest_id[p] THEN [g EXCEPT !.status = status] ELSE g :
                              g \in digests}
            /\ inserted' = [inserted EXCEPT ![p] =
                               InsertedCount(digest_items, digest_id[p], picked[p],
                                             skip[p] + 1, base_rank[p], params.top_n)]
            /\ added' = [added EXCEPT ![p] = UsedItems(rows \ digest_items)]
            /\ stale' = StaleAfterCommit(p)
            /\ pc' = [pc EXCEPT ![p] = "done"]
            /\ changed' = [changed EXCEPT ![p] = TRUE]
    /\ Bystanders(p)
    /\ UNCHANGED <<items, calls, ingested, day, params, refill, force, digest_id, cur_count,
                   picked, base_rank, released, seen, skip, tie_order, out,
                   llm_analyses, reply, gen, auto>>

\* the caller's locals are dropped when the call is over
Finish(p) ==
    /\ pc' = [pc EXCEPT ![p] = "idle"]
    /\ prev' = [q \in Procs |-> IF q = p /\ pc[p] # "raised" /\ ~interfered[p]
                                 THEN Args(p) ELSE <<>>]
    /\ interfered' = [q \in Procs |-> IF q = p THEN FALSE
                                       ELSE IF pc[q] # "idle" THEN TRUE ELSE interfered[q]]
    /\ pre' = [q \in Procs |-> {}]
    /\ again' = [q \in Procs |-> FALSE]
    /\ day' = [day EXCEPT ![p] = 0]
    /\ refill' = [refill EXCEPT ![p] = TRUE]
    /\ force' = [force EXCEPT ![p] = FALSE]
    /\ digest_id' = [digest_id EXCEPT ![p] = 0]
    /\ cur_count' = [cur_count EXCEPT ![p] = 0]
    /\ picked' = [picked EXCEPT ![p] = <<>>]
    /\ base_rank' = [base_rank EXCEPT ![p] = 0]
    /\ inserted' = [inserted EXCEPT ![p] = 0]
    /\ stale' = [stale EXCEPT ![p] = FALSE]
    /\ changed' = [changed EXCEPT ![p] = FALSE]
    /\ added' = [added EXCEPT ![p] = {}]
    /\ released' = [released EXCEPT ![p] = {}]
    /\ seen' = [seen EXCEPT ![p] = NotSeen]
    /\ skip' = [skip EXCEPT ![p] = 0]
    /\ out' = [out EXCEPT ![p] = NoResult]
    /\ UNCHANGED <<store, calls, ingested, params, tie_order,
                   llm_analyses, reply, gen>>

\* the call returns its result or propagates the exception; the read-back of
\* lines 285 and 338 changes nothing in the store and is taken as one step here
Return(p) ==
    /\ pc[p] \in {"done", "raised"}
    /\ Finish(p)
    /\ UNCHANGED auto

Next ==
    \/ Ingest
    \/ \E p \in Procs : Call(p)
    \/ \E p \in Procs : EnsureInsert(p)
    \/ \E p \in Procs : EnsureRaise(p)
    \/ \E p \in Procs : Count(p)
    \/ \E p \in Procs : Force(p)
    \/ \E p \in Procs : SelectPrefer(p)
    \/ \E p \in Procs : SelectFallback(p)
    \/ \E p \in Procs : TxBegin(p)
    \/ \E p \in Procs : InsertLocked(p)
    \/ \E p \in Procs : InsertPhase(p)
    \/ \E p \in Procs : Return(p)

Spec == Init /\ [][Next]_vars

\* ------------------------------------------------ the read-back, statement by statement
\* get_digest_by_day, first SELECT (line 93): the row of the day, read in autocommit
ReadDigest(p) ==
    /\ pc[p] = "done"
    /\ \E g \in DigestOfDay(day[p]) :
          out' = [out EXCEPT ![p] = [id |-> g.id, status |-> g.status, items_count |-> 0]]
    /\ pc' = [pc EXCEPT ![p] = "read_items"]
    /\ Bystanders(p)
    /\ UNCHANGED <<store, calls, ingested, day, params, refill, force, digest_id, cur_count,
                   picked, base_rank, inserted, stale, changed, added, released, seen, skip,
                   tie_order,
                   llm_analyses, reply, gen, auto>>

\* get_digest_by_day, second SELECT (lines 97-124): the rows of that digest as
\* they are committed now, and their count
ReadItems(p) ==
    /\ pc[p] = "read_items"
    /\ out' = [out EXCEPT ![p].items_count =
                              Cardinality(JoinedRows(digest_items, items, out[p].id))]
    /\ pc' = [pc EXCEPT ![p] = "returned"]
    /\ Bystanders(p)
    /\ UNCHANGED <<store, calls, ingested, day, params, refill, force, digest_id, cur_count,
                   picked, base_rank, inserted, stale, changed, added, released, seen, skip,
                   tie_order,
                   llm_analyses, reply, gen, auto>>

\* the call hands out what it read, or propagates the exception
ReturnRead(p) ==
    /\ pc[p] \in {"returned", "raised"}
    /\ Finish(p)
    /\ UNCHANGED auto

\* the store of the first kinds
InitRead ==
    /\ Init
    /\ items = [i \in 1..StoreSize |-> ItemKinds[i]]

NextRead ==
    \/ Ingest
    \/ \E p \in Procs : Call(p)
    \/ \E p \in Procs : EnsureInsert(p)
    \/ \E p \in Procs : EnsureRaise(p)
    \/ \E p \in Procs : Count(p)
    \/ \E p \in Procs : Force(p)
    \/ \E p \in Procs : SelectPrefer(p)
    \/ \E p \in Procs : SelectFallback(p)
    \/ \E p \in Procs : TxBegin(p)
    \/ \E p \in Procs : InsertLocked(p)
    \/ \E p \in Procs : InsertPhase(p)
    \/ \E p \in Procs : ReadDigest(p)
    \/ \E p \in Procs : ReadItems(p)
    \/ \E p \in Procs : ReturnRead(p)

SpecRead == InitRead /\ [][NextRead]_vars

\* ------------------------------------------------ ensure on a stored row
\* no call has started: every caller is idle and holds nothing
IdleCallers ==
    /\ calls = 0
    /\ ingested = 0
    /\ pc = [p \in Procs |-> "idle"]
    /\ day = [p \in Procs |-> 0]
    /\ refill = [p \in Procs |-> TRUE]
    /\ force = [p \in Procs |-> FALSE]
    /\ digest_id = [p \in Procs |-> 0]
    /\ cur_count = [p \in Procs |-> 0]
    /\ picked = [p \in Procs |-> <<>>]
    /\ base_rank = [p \in Procs |-> 0]
    /\ inserted = [p \in Procs |-> 0]
    /\ stale = [p \in Procs |-> FALSE]
    /\ changed = [p \in Procs |-> FALSE]
    /\ added = [p \in Procs |-> {}]
    /\ released = [p \in Procs |-> {}]
    /\ pre = [p \in Procs |-> {}]
    /\ interfered = [p \in Procs |-> FALSE]
    /\ prev = [p \in Procs |-> <<>>]
    /\ again = [p \in Procs |-> FALSE]
    /\ seen = [p \in Procs |-> NotSeen]
    /\ skip = [p \in Procs |-> 0]
    /\ out = [p \in Procs |-> NoResult]
    /\ reply = NoReply
    /\ gen = GenIdle
    /\ auto = AutoIdle

\* the store of the first kinds; the first day has a row that an earlier call
\* created under any parameters and found nothing for, the other day has none
InitEnsure ==
    /\ items = [i \in 1..StoreSize |-> ItemKinds[i]]
    /\ params \in ParamChoices
    /\ \E d \in Days : \E prm \in ParamChoices :
          /\ \A e \in Days : d <= e
          /\ digests = {[id |-> 1, day |-> d, status |-> "empty", params_json |-> prm,
                         script_json |-> NoScript]}
    /\ digest_items = {}
    /\ llm_analyses = AnalysesOf(items)
    /\ IdleCallers
    /\ tie_order = "id_asc"

\* the calls without the arrival of items
NextEnsure ==
    \/ \E p \in Procs : Call(p)
    \/ \E p \in Procs : EnsureInsert(p)
    \/ \E p \in Procs : EnsureRaise(p)
    \/ \E p \in Procs : Count(p)
    \/ \E p \in Procs : Force(p)
    \/ \E p \in Procs : SelectPrefer(p)
    \/ \E p \in Procs : SelectFallback(p)
    \/ \E p \in Procs : TxBegin(p)
    \/ \E p \in Procs : InsertLocked(p)
    \/ \E p \in Procs : InsertPhase(p)
    \/ \E p \in Procs : Return(p)

SpecEnsure == InitEnsure /\ [][NextEnsure]_vars

\* ------------------------------------------------ analyses and thresholds
\* an item as ingest stores it, before any analysis
RawItem(d, t, business, dfo) ==
    [stamp |-> Stamp(d, t), interest_score |-> 0, business_score |-> business,
     dfo_score |-> dfo, is_dfo_business |-> FALSE, war |-> FALSE, analysed |-> FALSE]

\* items that pass the score thresholds of DefaultParams and items that fail one
RawKinds == << RawItem(3, 0, 2, 2), RawItem(3, 1, 1, 2), RawItem(2, 1, 2, 2),
              RawItem(2, 0, 2, 1) >>

\* the (item, prompt version) pairs the llm queue holds, in the order in
\* which the worker takes them: the first item under two prompt versions, again
\* under the first version, then the third item
AnalysisTargets == << <<1, 1>>, <<1, 2>>, <<1, 1>>, <<3, 1>> >>

\* what the llm service answers: interesting, dull, not about the region's business
AnalysisChoices ==
    {[interest_score |-> 9, is_dfo_business |-> TRUE],
     [interest_score |-> 3, is_dfo_business |-> TRUE],
     [interest_score |-> 9, is_dfo_business |-> FALSE]}

\* llm_worker._insert_analysis and commit: INSERT OR REPLACE drops the row of
\* (item_id, prompt_version), if any, and inserts the analysis under a new id;
\* the joined records follow
Analyse ==
    /\ NextAnalysisId <= MaxAnalyses
    /\ ~LockHeld(0)
    /\ \E a \in AnalysisChoices :
        LET t == AnalysisTargets[Min(NextAnalysisId - 1, Len(AnalysisTargets))]
            i == t[1]
            v == t[2] IN
          /\ llm_analyses' =
                 {x \in llm_analyses : ~(x.item_id = i /\ x.prompt_version = v)}
                    \cup {Analysis(NextAnalysisId, i, v, a)}
          /\ items' = [j \in DOMAIN items |-> JoinLatest(items[j], llm_analyses', j)]
    /\ stale' = StaleAfterCommit(0)
    /\ Bystanders(0)
    /\ UNCHANGED <<digests, digest_items, calls, ingested, params, pc, day, refill, force,
                   digest_id, cur_count, picked, base_rank, inserted, changed,
                   added, released, seen, skip, tie_order, out, reply, gen, auto>>

\* raw items of which the second, which fails min_business, has a good
\* analysis; an empty digest for every day
InitFilter ==
    /\ llm_analyses = {[id |-> 1, item_id |-> 2, prompt_version |-> 1,
                        interest_score |-> 9, is_dfo_business |-> TRUE]}
    /\ items = [i \in 1..StoreSize |-> JoinLatest(RawKinds[i], llm_analyses, i)]
    /\ params = DefaultParams
    /\ digests = {[id |-> d - 1, day |-> d, status |-> "empty", params_json |-> params,
                   script_json |-> NoScript] : d \in Days}
    /\ digest_items = {}
    /\ IdleCallers
    /\ tie_order = "id_asc"

\* analyses arrive while calls fill the digests that exist
NextFilter ==
    \/ Analyse
    \/ \E p \in Procs : Call(p)
    \/ \E p \in Procs : Force(p)
    \/ \E p \in Procs : SelectPrefer(p)
    \/ \E p \in Procs : SelectFallback(p)
    \/ \E p \in Procs : TxBegin(p)
    \/ \E p \in Procs : InsertPhase(p)
    \/ \E p \in Procs : Return(p)

SpecFilter == InitFilter /\ [][NextFilter]_vars

\* ------------------------------------------------ the windows
\* window lengths among those the API accepts (main.py, lines 272-273)
WindowChoices == {1, 2, 3}
WindowParams ==
    {[DefaultParams EXCEPT !.top_n = MaxTopN, !.prefer_days = pd, !.max_lookback_days = lb] :
        pd \in WindowChoices, lb \in WindowChoices}

\* any store, any windows, an empty digest for every day
InitWindow ==
    /\ items \in Stores
    /\ params \in WindowParams
    /\ digests = {[id |-> d - 1, day |-> d, status |-> "empty", params_json |-> params,
                   script_json |-> NoScript] : d \in Days}
    /\ digest_items = {}
    /\ llm_analyses = AnalysesOf(items)
    /\ IdleCallers
    /\ tie_order = "id_asc"

\* calls that fill the digests that exist
NextWindow ==
    \/ \E p \in Procs : Call(p)
    \/ \E p \in Procs : Force(p)
    \/ \E p \in Procs : SelectPrefer(p)
    \/ \E p \in Procs : SelectFallback(p)
    \/ \E p \in Procs : TxBegin(p)
    \/ \E p \in Procs : InsertPhase(p)
    \/ \E p \in Procs : Return(p)

SpecWindow == InitWindow /\ [][NextWindow]_vars

\* ------------------------------------------------ the API request
\* day strings a client sends: not of the form YYYY-MM-DD, a date, and a
\* string of that form that names no date
RequestDays == {-1, LastDay, LastDay + 1}

\* top_n values a client sends: below the range, the one the callers use, above
RequestTopN == {0, MaxTopN, 21}

\* the reply of a request that FastAPI's validation turns down
Unprocessable == Reply("create", 0, 422, FALSE, 0, <<>>, <<0, 0, 0>>)

\* POST /digests/daily/create (main.py, lines 268-297): the Query constraints
\* on day and top_n are checked before the handler runs; an accepted request
\* enters create_or_refill_daily_digest
Request(p) ==
    /\ FirstIdle(p)
    /\ calls < MaxCalls
    /\ \E s \in RequestDays, n \in RequestTopN, fl \in CallFlags :
          IF MatchesDayPattern(s) /\ n >= 1 /\ n <= 20
          THEN /\ n = params.top_n
               /\ Enter(p, s, fl[1], fl[2])
               /\ UNCHANGED <<reply, auto>>
          ELSE /\ reply' = Unprocessable
               /\ calls' = calls + 1
               /\ UNCHANGED <<store, ingested, params, pc, day, refill, force, digest_id,
                              cur_count, picked, base_rank, inserted, stale, changed, added,
                              released, pre, interfered, prev, again, seen, skip, tie_order,
                              out, llm_analyses, gen, auto>>

\* the store of the first kinds, no digest yet
InitValidate ==
    /\ Init
    /\ items = [i \in 1..StoreSize |-> ItemKinds[i]]

\* requests and the calls they start
NextValidate ==
    \/ \E p \in Procs : Request(p)
    \/ \E p \in Procs : EnsureInsert(p)
    \/ \E p \in Procs : EnsureRaise(p)
    \/ \E p \in Procs : Count(p)
    \/ \E p \in Procs : Force(p)
    \/ \E p \in Procs : SelectPrefer(p)
    \/ \E p \in Procs : SelectFallback(p)
    \/ \E p \in Procs : TxBegin(p)
    \/ \E p \in Procs : InsertLocked(p)
    \/ \E p \in Procs : InsertPhase(p)
    \/ \E p \in Procs : Return(p)

SpecValidate == InitValidate /\ [][NextValidate]_vars

\* ------------------------------------------------ the read operations
\* a read that answers with an empty draft where there is no row
GetOrDraft(digs, rows, its, d) ==
    IF \E g \in digs : g.day = d
    THEN LET g == CHOOSE x \in digs : x.day = d IN
         [exists |-> TRUE, items_count |-> Cardinality(JoinedRows(rows, its, g.id))]
    ELSE [exists |-> TRUE, items_count |-> 0]

\* get_digest_by_day (lines 91-126): None without a row of the day, else the
\* row with its items and items_count
get_digest_by_day(digs, rows, its, d) ==
    IF \E g \in digs : g.day = d
    THEN LET g == CHOOSE x \in digs : x.day = d IN
         [exists |-> TRUE, items_count |-> Cardinality(JoinedRows(rows, its, g.id))]
    ELSE [exists |-> FALSE, items_count |-> 0]

\* the days of a table in descending order
RECURSIVE DaysDesc(_)
DaysDesc(ds) ==
    IF ds = {} THEN <<>>
    ELSE LET top == CHOOSE d \in ds : \A e \in ds : e <= d IN
         <<top>> \o DaysDesc(ds \ {top})

\* list_digests (lines 76-88): per digest, by day descending, the count of
\* its daily_digest_items rows
list_digests(digs, rows) ==
    LET ds == DaysDesc({g.day : g \in digs}) IN
    [k \in 1..Len(ds) |->
        <<ds[k], Cardinality({r \in rows : \E g \in digs : g.day = ds[k] /\ r.digest_id = g.id})>>]

\* compute_diagnostics (lines 181-212): candidates_total, prefer_bucket,
\* fallback_bucket
compute_diagnostics(d, prm) ==
    <<Cardinality(_base_candidates_sql(prm)),
      Cardinality(PreferCands(d, prm)),
      Cardinality(FallbackCands(d, prm))>>

\* GET /digests/daily (main.py, lines 259-265)
GetDigest ==
    /\ \E d \in Days :
        LET g == get_digest_by_day(digests, digest_items, items, d) IN
          reply' = Reply("get", d, 200, g.exists, g.items_count, <<>>, <<0, 0, 0>>)
    /\ UNCHANGED <<store, calls, ingested, params, pc, day, refill, force, digest_id,
                   cur_count, picked, base_rank, inserted, stale, changed, added,
                   released, pre, interfered, prev, again, seen, skip, tie_order,
                   out, llm_analyses, gen, auto>>

\* GET /digests (main.py, lines 251-256)
ListDigests ==
    /\ reply' = Reply("list", 0, 200, FALSE, 0, list_digests(digests, digest_items),
                      <<0, 0, 0>>)
    /\ UNCHANGED <<store, calls, ingested, params, pc, day, refill, force, digest_id,
                   cur_count, picked, base_rank, inserted, stale, changed, added,
                   released, pre, interfered, prev, again, seen, skip, tie_order,
                   out, llm_analyses, gen, auto>>

\* compute_diagnostics called for a day, with the parameters the callers use
Diagnostics ==
    /\ \E d \in Days :
          reply' = Reply("diagnostics", d, 200, FALSE, 0, <<>>, compute_diagnostics(d, params))
    /\ UNCHANGED <<store, calls, ingested, params, pc, day, refill, force, digest_id,
                   cur_count, picked, base_rank, inserted, stale, changed, added,
                   released, pre, interfered, prev, again, seen, skip, tie_order,
                   out, llm_analyses, gen, auto>>

\* the store of the first kinds, no digest yet, both windows of a day each
InitReaders ==
    /\ Init
    /\ items = [i \in 1..StoreSize |-> ItemKinds[i]]
    /\ params.prefer_days = 1

\* reads at any moment of the calls
NextReaders ==
    \/ GetDigest
    \/ ListDigests
    \/ Diagnostics
    \/ \E p \in Procs : SideCall(p)
    \/ \E p \in Procs : EnsureInsert(p)
    \/ \E p \in Procs : EnsureRaise(p)
    \/ \E p \in Procs : Count(p)
    \/ \E p \in Procs : Force(p)
    \/ \E p \in Procs : SelectPrefer(p)
    \/ \E p \in Procs : SelectFallback(p)
    \/ \E p \in Procs : TxBegin(p)
    \/ \E p \in Procs : InsertLocked(p)
    \/ \E p \in Procs : InsertPhase(p)
    \/ \E p \in Procs : Return(p)

SpecReaders == InitReaders /\ [][NextReaders]_vars

\* ------------------------------------------------ the script
\* a script generation that regenerates whatever is stored
ReturnsStoredNever(fc, script) == FALSE

\* line 365: the stored script is returned when force is not set and one exists
ReturnsStored(fc, script) == ~fc /\ script # NoScript

\* a script UPDATE that also resets the status
ScriptStoredResetsStatus(digs, did, segments) ==
    {IF g.id = did THEN [g EXCEPT !.script_json = segments, !.status = "draft"] ELSE g :
        g \in digs}

\* lines 410-419: UPDATE daily_digests SET updated_at, script_json,
\* script_model, script_created_at WHERE id = digest_id
ScriptStored(digs, did, segments) ==
    {IF g.id = did THEN [g EXCEPT !.script_json = segments] ELSE g : g \in digs}

\* generate_digest_script(day, force), lines 354-371: read the digest with its
\* items; raise without a digest or without items; return the stored script;
\* else go on to the llm service
GenStart ==
    /\ gen.pc = "idle"
    /\ \E d \in Days, fc \in BOOLEAN :
        IF DigestOfDay(d) = {}
        THEN gen' = Gen("raised", d, fc, 0, {}, {}, "digest not found")
        ELSE \E g \in DigestOfDay(d) :
             LET its == UsedItems(JoinedRows(digest_items, items, g.id)) IN
             gen' = IF its = {}
                    THEN Gen("raised", d, fc, g.id, {}, {}, "digest has no items")
                    ELSE IF ReturnsStored(fc, g.script_json)
                    THEN Gen("done", d, fc, g.id, its, g.script_json, "")
                    ELSE Gen("llm", d, fc, g.id, its, {}, "")
    /\ UNCHANGED <<store, calls, ingested, params, pc, day, refill, force, digest_id,
                   cur_count, picked, base_rank, inserted, stale, changed, added,
                   released, pre, interfered, prev, again, seen, skip, tie_order,
                   out, llm_analyses, reply, auto>>

\* lines 395-408: the llm service answers with the segments of a script for
\* the items sent (a script is modelled by the set of items it tells), or with
\* an error status, or with no segments
GenLlm ==
    /\ gen.pc = "llm"
    /\ \/ gen' = [gen EXCEPT !.pc = "store", !.script = gen.items]
       \/ gen' = [gen EXCEPT !.pc = "raised", !.error = "llm error"]
       \/ gen' = [gen EXCEPT !.pc = "raised", !.error = "empty segments"]
    /\ UNCHANGED <<store, calls, ingested, params, pc, day, refill, force, digest_id,
                   cur_count, picked, base_rank, inserted, stale, changed, added,
                   released, pre, interfered, prev, again, seen, skip, tie_order,
                   out, llm_analyses, reply, auto>>

\* lines 410-425: store the segments, commit, return them
GenStore ==
    /\ gen.pc = "store"
    /\ ~LockHeld(0)
    /\ digests' = ScriptStored(digests, gen.digest_id, gen.script)
    /\ gen' = [gen EXCEPT !.pc = "done"]
    /\ stale' = StaleAfterCommit(0)
    /\ Bystanders(0)
    /\ UNCHANGED <<items, digest_items, calls, ingested, params, pc, day, refill, force,
                   digest_id, cur_count, picked, base_rank, inserted, changed, added,
                   released, seen, skip, tie_order, out, llm_analyses, reply, auto>>

\* the call is over: its result was returned or its exception propagated
GenReturn ==
    /\ gen.pc \in {"done", "raised"}
    /\ gen' = GenIdle
    /\ UNCHANGED <<store, calls, ingested, params, pc, day, refill, force, digest_id,
                   cur_count, picked, base_rank, inserted, stale, changed, added,
                   released, pre, interfered, prev, again, seen, skip, tie_order,
                   out, llm_analyses, reply, auto>>

\* one store, one window: the calls and the arrivals change the digests
InitScript ==
    /\ Init
    /\ items = [i \in 1..StoreSize |-> ItemKinds[i]]
    /\ params.prefer_days = 1

\* the caller whose calls the other operations run between
OneCaller == 1

\* scripts generated at any moment of one caller's calls
NextScript ==
    \/ GenStart
    \/ GenLlm
    \/ GenStore
    \/ GenReturn
    \/ Ingest
    \/ SideCall(OneCaller)
    \/ EnsureInsert(OneCaller)
    \/ Count(OneCaller)
    \/ Force(OneCaller)
    \/ SelectPrefer(OneCaller)
    \/ SelectFallback(OneCaller)
    \/ TxBegin(OneCaller)
    \/ InsertPhase(OneCaller)
    \/ Return(OneCaller)

SpecScript == InitScript /\ [][NextScript]_vars

\* ------------------------------------------------ deleting items
\* DELETE FROM items WHERE ...: the rows of the items in gone are removed;
\* _apply_pragmas does not set foreign_keys, so no row of another table goes
\* with them
WithoutItems(its, gone) == [i \in DOMAIN its \ gone |-> its[i]]

\* the statement of a delete endpoint and its commit
DeleteItems(gone) ==
    /\ ~LockHeld(0)
    /\ items' = WithoutItems(items, gone)
    /\ stale' = StaleAfterCommit(0)
    /\ Bystanders(0)
    /\ UNCHANGED <<digests, digest_items, calls, ingested, params, pc, day, refill,
                   force, digest_id, cur_count, picked, base_rank, inserted, changed,
                   added, released, seen, skip, tie_order, out, llm_analyses, gen, auto>>

\* DELETE /items/{item_id} (main.py, lines 147-155): 404 when no row went
delete_item ==
    \E i \in 1..NumItems :
        /\ DeleteItems({i} \cap DOMAIN items)
        /\ reply' = Reply("delete_item", i, IF i \in DOMAIN items THEN 200 ELSE 404,
                          FALSE, Cardinality({i} \cap DOMAIN items), <<>>, <<0, 0, 0>>)

\* DELETE /items/by-day (main.py, lines 137-146): the items dated day
delete_items_by_day ==
    \E d \in 1..LastDay :
        LET gone == {i \in DOMAIN items : DateOf(items[i].stamp) = d} IN
        /\ DeleteItems(gone)
        /\ reply' = Reply("delete_items_by_day", d, 200, FALSE, Cardinality(gone), <<>>,
                          <<0, 0, 0>>)

\* DELETE /items/purge (main.py, lines 233-244): the items dated before the
\* cutoff, which is at least one day before now
purge_items ==
    \E d \in 1..LastDay :
        LET gone == {i \in DOMAIN items : items[i].stamp < Stamp(d, 0)} IN
        /\ DeleteItems(gone)
        /\ reply' = Reply("purge_items", d, 200, FALSE, Cardinality(gone), <<>>,
                          <<0, 0, 0>>)

InitDelete ==
    /\ Init
    /\ items = [i \in 1..StoreSize |-> ItemKinds[i]]
    /\ params.prefer_days = 1

\* items deleted at any moment of one caller's calls
NextDelete ==
    \/ delete_item
    \/ delete_items_by_day
    \/ purge_items
    \/ SideCall(OneCaller)
    \/ EnsureInsert(OneCaller)
    \/ Count(OneCaller)
    \/ Force(OneCaller)
    \/ SelectPrefer(OneCaller)
    \/ SelectFallback(OneCaller)
    \/ TxBegin(OneCaller)
    \/ InsertPhase(OneCaller)
    \/ Return(OneCaller)

SpecDelete == InitDelete /\ [][NextDelete]_vars

\* ------------------------------------------------ automation
\* a handler that takes the marker when it accepts the run
AcceptedMarker(running, r) == r

\* auto_run, lines 325-331: the handler queues the run and starts its thread;
\* the marker is left as it was
AcceptedRunning(running, r) == running

\* the pipeline goes through ingest, llm and daily, each if its name or full
\* was asked for
AfterStep(pl, step) ==
    IF step = "queued" /\ pl \in {"ingest", "full"} THEN "ingest"
    ELSE IF step \in {"queued", "ingest"} /\ pl \in {"llm", "full"} THEN "llm"
    ELSE IF step \in {"queued", "ingest", "llm"} /\ pl \in {"daily", "full"} THEN "daily"
    ELSE "finishing"

\* _today_utc(), the day of a request that names none
Today == LastDay

\* POST /auto/run (lines 316-332) without a day: 409 when the state names a
\* running run, else a new run is queued and its thread started
auto_run ==
    \E r \in Runs, pl \in Pipelines, d \in {Today} :
        /\ auto.at[r] = "none"
        /\ \A q \in Runs : q < r => auto.at[q] # "none"
        /\ IF auto.running_run_id # 0
           THEN /\ reply' = Reply("auto_run", 0, 409, FALSE, 0, <<>>, <<0, 0, 0>>)
                /\ UNCHANGED auto
           ELSE /\ reply' = Reply("auto_run", r, 200, FALSE, 0, <<>>, <<0, 0, 0>>)
                /\ auto' = [auto EXCEPT
                              !.running_run_id = AcceptedRunning(auto.running_run_id, r),
                              !.at[r] = "queued", !.pipeline[r] = pl, !.day[r] = d]
    /\ UNCHANGED <<store, calls, ingested, params, pc, day, refill, force, digest_id,
                   cur_count, picked, base_rank, inserted, stale, changed, added,
                   released, pre, interfered, prev, again, seen, skip, tie_order,
                   out, llm_analyses, gen>>

\* _run_pipeline, lines 250-253: the thread of the run sets the marker
PipelineStart(r) ==
    /\ auto.at[r] = "queued"
    /\ auto' = [auto EXCEPT !.running_run_id = r,
                            !.at[r] = AfterStep(auto.pipeline[r], "queued")]
    /\ UNCHANGED <<store, calls, ingested, params, pc, day, refill, force, digest_id,
                   cur_count, picked, base_rank, inserted, stale, changed, added,
                   released, pre, interfered, prev, again, seen, skip, tie_order,
                   out, llm_analyses, reply, gen>>

\* lines 255-267: the ingest step, then the llm step; either is done or raises
PipelineStep(r) ==
    /\ auto.at[r] \in {"ingest", "llm"}
    /\ \/ auto' = [auto EXCEPT !.at[r] = AfterStep(auto.pipeline[r], auto.at[r])]
       \/ auto' = [auto EXCEPT !.at[r] = "finishing"]
    /\ UNCHANGED <<store, calls, ingested, params, pc, day, refill, force, digest_id,
                   cur_count, picked, base_rank, inserted, stale, changed, added,
                   released, pre, interfered, prev, again, seen, skip, tie_order,
                   out, llm_analyses, reply, gen>>

\* lines 269-271 and 206-209: the daily step enters
\* create_or_refill_daily_digest(day, DigestParams(), refill=True, force=False)
DailyEnter(r) ==
    /\ auto.at[r] = "daily"
    /\ \E p \in Procs :
          /\ FirstIdle(p)
          /\ Enter(p, auto.day[r], TRUE, FALSE)
          /\ auto' = [auto EXCEPT !.at[r] = "digest", !.caller[r] = p]
    /\ UNCHANGED reply

\* lines 209-246: the digest call is over; the script, tts and video steps
\* follow and the step is done, or one of them raises
DailyAssets(r) ==
    /\ auto.at[r] = "digest"
    /\ pc[auto.caller[r]] \in {"done", "raised"}
    /\ Finish(auto.caller[r])
    /\ auto' = [auto EXCEPT !.at[r] = "finishing", !.caller[r] = 0]

\* lines 273-285: the run is stored as done or failed, and the marker is
\* cleared if it still names this run
PipelineFinish(r) ==
    /\ auto.at[r] = "finishing"
    /\ auto' = [auto EXCEPT !.at[r] = "over",
                            !.running_run_id = IF auto.running_run_id = r THEN 0
                                               ELSE auto.running_run_id]
    /\ UNCHANGED <<store, calls, ingested, params, pc, day, refill, force, digest_id,
                   cur_count, picked, base_rank, inserted, stale, changed, added,
                   released, pre, interfered, prev, again, seen, skip, tie_order,
                   out, llm_analyses, reply, gen>>

\* the automation builds digests with DigestParams()
InitAuto ==
    /\ items = [i \in 1..StoreSize |-> ItemKinds[i]]
    /\ params = DefaultParams
    /\ digests = {}
    /\ digest_items = {}
    /\ llm_analyses = AnalysesOf(items)
    /\ IdleCallers
    /\ tie_order = "id_asc"

NextAuto ==
    \/ auto_run
    \/ \E r \in Runs : PipelineStart(r)
    \/ \E r \in Runs : PipelineStep(r)
    \/ \E r \in Runs : DailyEnter(r)
    \/ \E r \in Runs : DailyAssets(r)
    \/ \E r \in Runs : PipelineFinish(r)
    \/ \E p \in Procs : EnsureInsert(p)
    \/ \E p \in Procs : EnsureRaise(p)
    \/ \E p \in Procs : Count(p)
    \/ \E p \in Procs : SelectPrefer(p)
    \/ \E p \in Procs : SelectFallback(p)
    \/ \E p \in Procs : TxBegin(p)
    \/ \E p \in Procs : InsertLocked(p)
    \/ \E p \in Procs : InsertPhase(p)

SpecAuto == InitAuto /\ [][NextAuto]_vars

\* ------------------------------------------------ the selection alone
\* stores in which items tie on both sort keys, in both windows
TieKinds == {Item(3, 0, 9), Item(2, 1, 9)}
TieStores == [1..NumItems -> TieKinds]

\* a store with ties, an empty digest for every day, any scan order
InitSelect ==
    /\ items \in TieStores
    /\ params \in ParamChoices
    /\ digests = {[id |-> d - 1, day |-> d, status |-> "empty", params_json |-> params,
                   script_json |-> NoScript] : d \in Days}
    /\ digest_items = {}
    /\ calls = 0
    /\ ingested = 0
    /\ pc = [p \in Procs |-> "idle"]
    /\ day = [p \in Procs |-> 0]
    /\ refill = [p \in Procs |-> TRUE]
    /\ force = [p \in Procs |-> FALSE]
    /\ digest_id = [p \in Procs |-> 0]
    /\ cur_count = [p \in Procs |-> 0]
    /\ picked = [p \in Procs |-> <<>>]
    /\ base_rank = [p \in Procs |-> 0]
    /\ inserted = [p \in Procs |-> 0]
    /\ stale = [p \in Procs |-> FALSE]
    /\ changed = [p \in Procs |-> FALSE]
    /\ added = [p \in Procs |-> {}]
    /\ released = [p \in Procs |-> {}]
    /\ pre = [p \in Procs |-> {}]
    /\ interfered = [p \in Procs |-> FALSE]
    /\ prev = [p \in Procs |-> <<>>]
    /\ again = [p \in Procs |-> FALSE]
    /\ seen = [p \in Procs |-> NotSeen]
    /\ skip = [p \in Procs |-> 0]
    /\ out = [p \in Procs |-> NoResult]
    /\ reply = NoReply
    /\ gen = GenIdle
    /\ auto = AutoIdle
    /\ llm_analyses = AnalysesOf(items)
    /\ tie_order \in TieOrders

\* calls that run their two selection queries and write nothing
NextSelect ==
    \/ \E p \in Procs : Call(p)
    \/ \E p \in Procs : SelectPrefer(p)
    \/ \E p \in Procs : SelectFallback(p)

SpecSelect == InitSelect /\ [][NextSelect]_vars

TypeOK ==
    /\ \A p \in Procs : pc[p] \in {"idle", "ensure_insert", "ensure_failed", "count", "force",
                                   "prefer", "fallback", "tx", "insert", "done", "raised",
                                   "read_items", "returned"}

\* ------------------------------------------------------------ claims
RanksOf(did) == {r.rank : r \in RowsOf(digest_items, did)}
PickedItems(p) == {picked[p][i] : i \in 1..Len(picked[p])}

\* C1: global exclusivity: in every reachable state, whatever the
\* interleaving of calls on different days with overlapping candidate pools,
\* each item id occurs in at most one row of daily_digest_items
C1_GlobalExclusivity ==
    \A r1, r2 \in digest_items : r1.item_id = r2.item_id => r1 = r2

\* a call has committed its batch while one of the candidates it had picked
\* sits in the digest of another day
C1_Witness ==
    \E p \in Procs :
        /\ pc[p] = "done"
        /\ changed[p]
        /\ \E r \in digest_items : r.item_id \in PickedItems(p) /\ r.digest_id # digest_id[p]

\* C2: rank contiguity: in every reachable state every digest with n rows has
\* exactly the ranks 1..n
C2_RankContiguity ==
    \A g \in digests : RanksOf(g.id) = 1..CountOf(digest_items, g.id)

\* the table as it was before this call's own batch, for a call nothing interfered with
RowsBefore(p) == {r \in digest_items : r.item_id \notin added[p]}
PreferredBefore(p) ==
    {i \in BaseCandidatesIn(items, RowsBefore(p), params) :
        /\ DateOf(items[i].stamp) <= day[p]
        /\ DateOf(items[i].stamp) > day[p] - params.prefer_days}
BackfillBefore(p) ==
    {i \in BaseCandidatesIn(items, RowsBefore(p), params) :
        /\ DateOf(items[i].stamp) <= day[p] - params.prefer_days
        /\ DateOf(items[i].stamp) > day[p] - params.max_lookback_days}
StatusOf(did) == {g.status : g \in {x \in digests : x.id = did}}

\* C3: idempotence: a second createOrRefill(day, params, refill=true,
\* force=false) right after an identical first one, with nothing in between,
\* returns changed=false and leaves the digest's rows as they were, whether
\* the first call left the digest ready, partial or empty
C3_Idempotence ==
    \A p \in Procs :
        (pc[p] = "done" /\ again[p] /\ ~interfered[p] /\ refill[p] /\ ~force[p])
            => (~changed[p] /\ RowsOf(digest_items, digest_id[p]) = pre[p])

\* C4: refill completes a partial digest: a call with refill=true, force=false
\* that runs alone on a digest with 0 < curCount < top_n rows, while at least
\* top_n - curCount eligible unused items lie in its two windows, ends with
\* exactly top_n rows and status ready
C4_RefillCompletes ==
    \A p \in Procs :
        (/\ pc[p] = "done" /\ ~interfered[p] /\ refill[p] /\ ~force[p]
         /\ 0 < Cardinality(pre[p]) /\ Cardinality(pre[p]) < params.top_n
         /\ Cardinality(PreferredBefore(p) \cup BackfillBefore(p))
                >= params.top_n - Cardinality(pre[p]))
            => (/\ CountOf(digest_items, digest_id[p]) = params.top_n
                /\ StatusOf(digest_id[p]) = {"ready"})

\* C5: two fillers racing on the same day never leave two rows of that digest
\* with the same rank
C5_NoDuplicateRank ==
    \A r1, r2 \in digest_items :
        (r1.digest_id = r2.digest_id /\ r1.rank = r2.rank) => r1 = r2

\* two fillers of one digest read the same base_rank; one has committed its
\* rows, the other still holds its candidates
C5_Witness ==
    \E p, q \in Procs :
        /\ p # q /\ digest_id[p] = digest_id[q]
        /\ pc[p] = "done" /\ inserted[p] > 0
        /\ pc[q] = "insert" /\ Len(picked[q]) > 0
        /\ base_rank[p] = base_rank[q]

\* C6: size bound: every rank lies in 1..top_n, and with one top_n passed by
\* all calls no digest holds more than top_n rows, also under a race
C6_SizeBound ==
    /\ \A r \in digest_items : r.rank \in 1..params.top_n
    /\ \A g \in digests : CountOf(digest_items, g.id) <= params.top_n

\* a filler committed after another filler of the same day had raised the
\* count above the one it had read, and the break cut one of its candidates
C6_Witness ==
    \E p \in Procs :
        /\ pc[p] = "done" /\ changed[p]
        /\ base_rank[p] > cur_count[p]
        /\ \E i \in 1..Len(picked[p]) :
              /\ RankFor(base_rank[p], i) > params.top_n
              /\ picked[p][i] \notin UsedItems(digest_items)

\* C7 as stated: after createOrRefill(day, force=true) every item that was in
\* day's digest before the call is a candidate again for any digest
C7_ReleasedAfterCall ==
    \A p \in Procs :
        (pc[p] = "done" /\ force[p] /\ ~interfered[p])
            => released[p] \cap UsedItems(digest_items) = {}

\* C7 as amended: the delete step of a force rebuild leaves every item that
\* was in day's digest without any membership row, so that it passes the
\* candidate filter again until some call (the rebuild itself included)
\* inserts it
C7_ForceDeleteReleases ==
    [][\A p \in Procs :
          (pc[p] = "force" /\ pc'[p] # "force")
              => /\ released'[p] = UsedItems(RowsOf(digest_items, digest_id[p]))
                 /\ released'[p] \cap UsedItems(digest_items') = {}
                 /\ released'[p] \subseteq BaseCandidatesIn(items', digest_items', params)]_vars

\* an item released by a force rebuild sits in the digest of another day
C7_Witness ==
    \E p \in Procs :
        \E r \in digest_items :
            r.item_id \in released[p] /\ r.digest_id # digest_id[p]

\* C8: append-only membership: a row disappears only in the delete step of a
\* force=true call and only if it belongs to that call's own digest; no other
\* step removes or alters a row, and no step removes or re-keys a digest row
C8_AppendOnly ==
    [][/\ \A r \in digest_items \ digest_items' :
             \E p \in Procs :
                 /\ force[p] /\ pc[p] = "force" /\ pc'[p] # "force"
                 /\ r.digest_id = digest_id[p]
                 /\ \E g \in digests : g.id = digest_id[p] /\ g.day = day[p]
       /\ \A g \in digests : \E h \in digests' : h.id = g.id /\ h.day = g.day]_vars

\* a force rebuild has deleted its rows while the digest of another day holds rows
C8_Witness ==
    \E p \in Procs :
        /\ pc[p] = "prefer" /\ force[p] /\ released[p] # {}
        /\ \E r \in digest_items : r.digest_id # digest_id[p]
        /\ \E g \in digests : g.id = digest_id[p]

\* C9: preferred window wins: when the preferred window holds at least need
\* eligible unused items, the backfill query is not consulted and every item
\* the call picks or inserts is dated inside the preferred window
C9_PreferredWins ==
    \A p \in Procs :
        (pc[p] \in {"tx", "insert", "done", "raised"} /\ seen[p].prefer >= need(p)
            /\ seen[p].prefer >= 0)
            => /\ seen[p].fallback = -1
               /\ added[p] \subseteq PickedItems(p)
               /\ \A i \in PickedItems(p) :
                     /\ DateOf(items[i].stamp) <= day[p]
                     /\ DateOf(items[i].stamp) > day[p] - params.prefer_days

\* a call filled its need from the preferred window while an unused backfill
\* item had a higher interest score than an item it inserted
C9_Witness ==
    \E p \in Procs :
        /\ pc[p] = "done" /\ seen[p].prefer >= need(p) /\ seen[p].prefer >= 0
        /\ \E i \in added[p] : \E j \in DatedBackfill(day[p], params) :
              items[j].interest_score > items[i].interest_score

\* C10: backfill on shortage: a call that runs alone and finds k < need
\* eligible unused items in the preferred window and m in the backfill window
\* inserts all k preferred items plus exactly the min(need - k, m) backfill
\* items that come first by (interest descending, timestamp descending)
C10_BackfillOnShortage ==
    \A p \in Procs :
        (pc[p] = "done" /\ changed[p] /\ ~interfered[p]
            /\ Cardinality(PreferredBefore(p)) < need(p))
            => LET k == Cardinality(PreferredBefore(p))
                   m == Cardinality(BackfillBefore(p)) IN
               /\ PreferredBefore(p) \subseteq added[p]
               /\ added[p] \subseteq PreferredBefore(p) \cup BackfillBefore(p)
               /\ Cardinality(added[p] \cap BackfillBefore(p)) = Min(need(p) - k, m)
               /\ \A i \in added[p] \cap BackfillBefore(p) :
                     \A j \in BackfillBefore(p) \ added[p] : ~Before(items, j, i)

\* the order in which the specification has a call for day d consider two
\* items: the preferred dates first, and inside one window the higher
\* interest score first, then the later timestamp
DatedInPreferred(d, i) ==
    DateOf(items[i].stamp) <= d /\ DateOf(items[i].stamp) > d - params.prefer_days
ConsideredBefore(d, i, j) ==
    \/ DatedInPreferred(d, i) /\ ~DatedInPreferred(d, j)
    \/ /\ DatedInPreferred(d, i) = DatedInPreferred(d, j)
       /\ \/ items[i].interest_score > items[j].interest_score
          \/ /\ items[i].interest_score = items[j].interest_score
             /\ items[i].stamp > items[j].stamp

\* C11: rank order within one call: the rows one call inserts carry ranks that
\* increase in the order the candidates were considered: preferred-window
\* items by interest score descending then timestamp descending, then the
\* backfill items in the same order
C11_RankOrder ==
    \A p \in Procs :
        (pc[p] = "done" /\ changed[p])
            => \A r1, r2 \in RowsOf(digest_items, digest_id[p]) :
                  (/\ r1.item_id \in added[p] /\ r2.item_id \in added[p]
                   /\ ConsideredBefore(day[p], r1.item_id, r2.item_id))
                      => r1.rank < r2.rank

\* a call inserted a preferred item and, below it, a backfill item of higher
\* interest score
C11_Witness ==
    \E p \in Procs :
        /\ pc[p] = "done" /\ changed[p]
        /\ \E r1, r2 \in RowsOf(digest_items, digest_id[p]) :
              /\ r1.item_id \in added[p] /\ r2.item_id \in added[p]
              /\ DatedInPreferred(day[p], r1.item_id)
              /\ ~DatedInPreferred(day[p], r2.item_id)
              /\ items[r2.item_id].interest_score > items[r1.item_id].interest_score
              /\ r1.rank < r2.rank

C13_RacersComplete ==
    \A p \in Procs : ~(pc[p] = "raised" /\ digest_id[p] = 0)

\* C14: at most one DailyDigest row per day in every reachable state, also
\* when calls for one not yet existing day interleave
C14_OneRowPerDay ==
    \A g, h \in digests : g.day = h.day => g = h

\* two calls for one day both found no row; one has created it and the other
\* is about to insert its own
C14_Witness ==
    \E p, q \in Procs :
        /\ p # q /\ day[p] = day[q]
        /\ pc[p] = "ensure_insert" /\ digest_id[q] # 0
        /\ \E g \in digests : g.day = day[p] /\ g.id = digest_id[q]

\* the row candidate i of caller p's batch would become
BatchRow(p, i) ==
    [digest_id |-> digest_id[p], item_id |-> picked[p][i], rank |-> base_rank[p] + i]
\* p finishes its insert phase in this step, and no INSERT of the batch met a
\* locked database
CleanBatchStep(p) ==
    /\ pc[p] = "insert" /\ pc'[p] # "insert"
    /\ ~stale[p] /\ skip[p] = 0 /\ ~LockHeld(p)

\* C15: a uniqueness violation on a picked candidate is absorbed: exactly the
\* candidates whose item or rank is already taken are skipped, every other
\* candidate with a rank up to top_n is inserted, the call does not raise, and
\* the returned inserted equals the number of rows the call added
C15_ConflictAbsorbed ==
    [][\A p \in Procs :
          CleanBatchStep(p)
              => /\ pc'[p] = "done"
                 /\ inserted'[p] = Cardinality(digest_items' \ digest_items)
                 /\ digest_items \subseteq digest_items'
                 /\ \A i \in 1..Len(picked[p]) :
                       base_rank[p] + i <= params.top_n
                           => (BatchRow(p, i) \in digest_items' \ digest_items
                                  <=> ~\E x \in digest_items :
                                         \/ x.item_id = picked[p][i]
                                         \/ /\ x.digest_id = digest_id[p]
                                            /\ x.rank = base_rank[p] + i)]_vars

\* a call skipped a candidate that another digest had claimed and inserted
\* the candidate after it
C15_Witness ==
    \E p \in Procs :
        /\ pc[p] = "done" /\ changed[p] /\ skip[p] = 0
        /\ \E i, j \in 1..Len(picked[p]) :
              /\ i < j
              /\ picked[p][i] \notin added[p]
              /\ \E x \in digest_items :
                    x.item_id = picked[p][i] /\ x.digest_id # digest_id[p]
              /\ picked[p][j] \in added[p]

\* C16: a database error of the insertion phase that is not a uniqueness
\* conflict aborts the batch: no row of the batch is committed, the status is
\* not written, and the call raises
C16_ErrorAbortsBatch ==
    [][\A p \in Procs :
          (/\ pc[p] = "insert" /\ pc'[p] # "insert"
           /\ (stale[p] \/ skip[p] > 0 \/ LockHeld(p)))
              => /\ pc'[p] = "raised"
                 /\ digest_items' = digest_items
                 /\ digests' = digests]_vars

\* C17: no partial corruption on failure: when a call raises, the rows it
\* found in the digest are still there, also with force=true
C17_RaiseLeavesDigest ==
    \A p \in Procs :
        pc[p] = "raised"
            => released[p] \subseteq UsedItems(RowsOf(digest_items, digest_id[p]))

\* C18: idempotence short-circuit: a call that finds curCount >= top_n, or
\* curCount > 0 with refill=false and force=false, finishes without a
\* selection and without a write: rows and digest rows are unchanged and
\* changed is false
C18_ShortCircuitFrame ==
    [][\A p \in Procs :
          (/\ pc[p] # "done" /\ pc'[p] = "done"
           /\ \/ cur_count'[p] >= params.top_n
              \/ (cur_count'[p] > 0 /\ ~refill'[p] /\ ~force'[p]))
              => /\ digest_items' = digest_items
                 /\ digests' = digests
                 /\ ~changed'[p]
                 /\ picked'[p] = <<>>
                 /\ seen'[p] = NotSeen
                 /\ inserted'[p] = 0]_vars

\* a call with refill=false left a partial digest alone although a candidate
\* for it existed
C18_Witness ==
    \E p \in Procs :
        /\ pc[p] = "done" /\ ~changed[p] /\ ~refill[p] /\ ~force[p]
        /\ cur_count[p] > 0 /\ cur_count[p] < params.top_n
        /\ DatedPreferred(day[p], params) # {}

\* C19: status follows membership: with one top_n passed by all calls, a
\* digest with c rows is draft or empty only if c = 0, partial only if
\* 0 < c < top_n, ready only if c >= top_n
C19_StatusFollowsMembership ==
    \A g \in digests :
        LET c == Cardinality({r \in digest_items : r.digest_id = g.id}) IN
        /\ g.status \in {"draft", "empty"} => c = 0
        /\ g.status = "partial" => (0 < c /\ c < params.top_n)
        /\ g.status = "ready" => c >= params.top_n

\* a digest is partial, another one ready, and a call has found nothing for a
\* third state: empty
C19_Witness ==
    /\ \E g \in digests : g.status = "partial"
    /\ \E g \in digests : g.status \in {"ready", "empty"}

\* C20: what a call returns is a snapshot of one committed state: the returned
\* status agrees with the returned item list (ready: at least top_n items,
\* partial: between 1 and top_n-1, empty or draft: none), also when another
\* call commits while the result is read back
C20_ConsistentResult ==
    \A p \in Procs :
        pc[p] = "returned" =>
            /\ out[p].status = "ready" => out[p].items_count >= params.top_n
            /\ out[p].status = "partial" =>
                   out[p].items_count >= 1 /\ out[p].items_count < params.top_n
            /\ out[p].status \in {"empty", "draft"} => out[p].items_count = 0

\* C21: ensure(day, params) on a day that has a row returns the stored row
\* and modifies nothing: the params snapshot and the status are not
\* overwritten by the params of the later call; and ensure, finding the row
\* or inserting it, never inserts, deletes or changes a DigestItem row
C21_EnsureFrame ==
    [][\A p \in Procs :
          /\ (pc[p] = "idle" /\ pc'[p] # "idle" /\ DigestOfDay(day'[p]) # {})
                => (digests' = digests /\ digest_items' = digest_items)
          /\ (pc[p] = "ensure_insert" /\ pc'[p] # "ensure_insert")
                => (digests \subseteq digests' /\ digest_items' = digest_items)]_vars

\* a call has got from ensure a row that other parameters were stored with,
\* and the row has items
C21_Witness ==
    \E p \in Procs : \E g \in digests :
        /\ pc[p] \notin {"idle", "ensure_insert", "ensure_failed", "raised"}
        /\ digest_id[p] = g.id
        /\ g.params_json # params
        /\ inserted[p] = 0
        /\ CountOf(digest_items, g.id) > 0

\* item i has an analysis, its latest analysis passes the thresholds of the
\* parameters, and so do the item's own scores
Qualifies(i) ==
    /\ LatestOf(llm_analyses, i) # {}
    /\ \A a \in LatestOf(llm_analyses, i) :
          /\ a.interest_score >= params.min_interest
          /\ params.only_dfo_business => a.is_dfo_business
    /\ items[i].business_score >= params.min_business
    /\ items[i].dfo_score >= params.min_dfo

\* C22: only analysed, threshold-passing items are selected: every item a
\* call picks has, when it is selected, at least one analysis, its latest
\* analysis (largest id) passes min_interest and only_dfo_business and the
\* item passes min_business and min_dfo; every item inserted was picked so,
\* and has an analysis
C22_OnlyAnalysed ==
    [][/\ \A p \in Procs :
            (pc[p] \in {"prefer", "fallback"} /\ picked'[p] # picked[p])
                => \A k \in (Len(picked[p]) + 1)..Len(picked'[p]) : Qualifies(picked'[p][k])
       /\ \A r \in digest_items' \ digest_items :
            /\ \E p \in Procs : r.item_id \in PickedItems(p)
            /\ \E a \in llm_analyses : a.item_id = r.item_id]_vars

\* an item is in a digest whose older analysis failed min_interest, while
\* another item has no analysis
C22_Witness ==
    /\ \E r \in digest_items : \E a, b \in llm_analyses :
          /\ a.item_id = r.item_id /\ b.item_id = r.item_id
          /\ a.id < b.id
          /\ a.interest_score < params.min_interest
    /\ \E i \in DOMAIN items : ~items[i].analysed

\* C23: disjoint phases: for every day and all prefer_days >= 1,
\* max_lookback_days >= 1 the preferred dates and the backfill range have no
\* date in common, so no item is in both windows and the picked list of a
\* call never holds the same item twice
C23_DisjointPhases ==
    /\ \A d \in Days : \A i \in DOMAIN items :
          ~(InPrefer(items, i, d, params) /\ InFallback(items, i, d, params))
    /\ \A p \in Procs : \A a, b \in 1..Len(picked[p]) :
          a # b => picked[p][a] # picked[p][b]

\* a call has picked from both windows, the preferred one being longer than a day
C23_Witness ==
    \E p \in Procs :
        /\ pc[p] = "tx"
        /\ params.prefer_days > 1
        /\ \E i \in PickedItems(p) : InPrefer(items, i, day[p], params)
        /\ \E i \in PickedItems(p) : InFallback(items, i, day[p], params)

\* C24: lookback bound: every item in day's digest has a calendar date D with
\* day - (max_lookback_days - 1) <= D <= day, for all window lengths the API
\* accepts
C24_LookbackBound ==
    \A g \in digests : \A r \in RowsOf(digest_items, g.id) :
        /\ MinDay(g.day, params) <= DateOf(items[r.item_id].stamp)
        /\ DateOf(items[r.item_id].stamp) <= g.day

\* C25: validation before any query: a request whose day string is malformed,
\* or is of the form YYYY-MM-DD and names no calendar date, or whose top_n is
\* out of range, creates no digest row and modifies no table
C25_ValidationFirst ==
    \A g \in digests : MatchesDayPattern(g.day) /\ _parse_day(g.day) # DateError

\* C26: computeDiagnostics, getDigestByDay and listDigests are read-only:
\* none creates a digest row or changes a DailyDigest or DigestItem row, also
\* for a day that has no digest yet: getDigestByDay then returns not-found
\* and computeDiagnostics still returns its counts
C26_ReadOnly ==
    [][(reply' # reply /\ reply'.op \in {"get", "list", "diagnostics"})
          => /\ store' = store
             /\ (reply'.op = "get" /\ DigestOfDay(reply'.day) = {}) => ~reply'.exists
             /\ (reply'.op = "get" /\ DigestOfDay(reply'.day) # {}) => reply'.exists
             /\ reply'.op = "diagnostics" =>
                   /\ reply'.code = 200
                   /\ reply'.diag[1] = Cardinality(_base_candidates_sql(params))
                   /\ reply'.diag[2] + reply'.diag[3] <= reply'.diag[1]]_vars

\* getDigestByDay has answered not-found for a day without a row while
\* another day's digest holds items
C26_Witness ==
    /\ reply.op = "get" /\ ~reply.exists
    /\ DigestOfDay(reply.day) = {}
    /\ digest_items # {}

\* C27: external-step failures do not touch the fill: no step of
\* generate_digest_script, whether the call succeeds or raises (missing
\* digest, empty digest, llm error, empty segments), changes a digest's
\* status or a DigestItem row
C27_ScriptLeavesFill ==
    [][gen' # gen
          => /\ digest_items' = digest_items
             /\ {[id |-> g.id, day |-> g.day, status |-> g.status] : g \in digests'}
                   = {[id |-> g.id, day |-> g.day, status |-> g.status] : g \in digests}]_vars

\* the script step has failed at the llm service for a digest that is ready
C27_Witness ==
    /\ gen.pc = "raised"
    /\ gen.error \in {"llm error", "empty segments"}
    /\ \E g \in digests : g.id = gen.digest_id /\ g.status = "ready"

\* C30 as stated: createOrRefill (refill or force rebuild) never clears or
\* updates script_json, and generate_digest_script(day, force=false) returns
\* the stored script without regenerating whenever one exists
C30_StoredScriptReturned ==
    [][/\ gen' = gen
          => \A g \in digests :
                \E h \in digests' : h.id = g.id /\ h.script_json = g.script_json
       /\ \A g \in digests :
             (/\ gen.pc = "idle"
              /\ gen'.pc # "idle"
              /\ ~gen'.force
              /\ g.day = gen'.day
              /\ g.script_json # NoScript)
             => gen'.pc = "done" /\ gen'.script = g.script_json]_vars

\* C30, amended: createOrRefill never clears or updates script_json, and
\* generate_digest_script(day, force=false) returns the stored script without
\* regenerating whenever one exists and the digest has at least one item; so
\* after the digest's items change the returned script is still the one
\* generated from the earlier item set
C30_StoredScriptReturnedWithItems ==
    [][/\ gen' = gen
          => \A g \in digests :
                \E h \in digests' : h.id = g.id /\ h.script_json = g.script_json
       /\ \A g \in digests :
             (/\ gen.pc = "idle"
              /\ gen'.pc # "idle"
              /\ ~gen'.force
              /\ g.day = gen'.day
              /\ g.script_json # NoScript
              /\ UsedItems(JoinedRows(digest_items, items, g.id)) # {})
             => gen'.pc = "done" /\ gen'.script = g.script_json]_vars

\* the stored script was returned for a digest whose items are no longer the
\* ones the script was generated from
C30_Witness ==
    /\ gen.pc = "done"
    /\ ~gen.force
    /\ gen.script # NoScript
    /\ gen.script # gen.items
    /\ \E g \in digests : g.id = gen.digest_id /\ g.script_json = gen.script

\* C28: no dangling membership: in every reachable state every DigestItem
\* row references an existing item, and for every digest the item count
\* reported by list_digests equals the number of items get_digest_by_day
\* returns
C28_NoDanglingMembership ==
    /\ \A r \in digest_items : r.item_id \in DOMAIN items
    /\ LET listed == list_digests(digests, digest_items) IN
       \A k \in 1..Len(listed) :
           listed[k][2] = get_digest_by_day(digests, digest_items, items, listed[k][1]).items_count

\* C29: automation single-flight: at most one pipeline run is in progress
\* (accepted and not finished) at any time, and no two automation runs are
\* inside create_or_refill_daily_digest at once
C29_SingleFlight ==
    /\ Cardinality({r \in Runs : auto.at[r] \notin {"none", "over"}}) <= 1
    /\ Cardinality({r \in Runs : auto.at[r] = "digest"}) <= 1

====
